---- MODULE Spec2Model ----
(***************************************************************************)
(* Model of healthcare_disease_analysis.py: a Streamlit script that asks   *)
(* a remote text-generation service about a disease, caches the raw        *)
(* answer per disease name, parses it as JSON and renders it in tabs.      *)
(*                                                                         *)
(* A Python str is a sequence of one-character strings.  A raw response is *)
(* a sequence of lexical tokens [k, s] (punctuation, string, number,       *)
(* literal, whitespace, or a lexically invalid fragment); json.loads is    *)
(* the recursive-descent parser over those tokens.  A Python value is a    *)
(* record [t, v]; a dict is the insertion-ordered sequence of its items.   *)
(* A float is the exact decimal [m, e] = m / 10^e in lowest decimal form.  *)
(***************************************************************************)
EXTENDS Integers, Sequences, FiniteSets, TLC

VARIABLES value, result, disease_name, disease_info, ui, tabs, fault,
          cache, remote_log, fetched, pc

vars == <<value, result, disease_name, disease_info, ui, tabs, fault,
          cache, remote_log, fetched, pc>>

\* ---------------------------------------------------------------- bounds
MaxLen == 5

\* ------------------------------------------------------- characters, str
Digits == {"0", "1", "2", "3", "4", "5", "6", "7", "8", "9"}

Whitespace == {" ", "\t", "\n", "\r"}

Alphabet == {" ", "0", "7", ".", "%", "a", "-"}

Strings == UNION {[1..n -> Alphabet] : n \in 0..MaxLen}

DigitVal(c) ==
  CASE c = "0" -> 0 [] c = "1" -> 1 [] c = "2" -> 2 [] c = "3" -> 3
    [] c = "4" -> 4 [] c = "5" -> 5 [] c = "6" -> 6 [] c = "7" -> 7
    [] c = "8" -> 8 [] c = "9" -> 9

RECURSIVE Pow10(_)
Pow10(n) == IF n = 0 THEN 1 ELSE 10 * Pow10(n - 1)

Str(s) == [t |-> "str", v |-> s]

\* str.strip(): drop the leading and the trailing run of whitespace
RECURSIVE lstrip(_)
lstrip(s) ==
  IF s # << >> /\ Head(s) \in Whitespace THEN lstrip(Tail(s)) ELSE s

RECURSIVE rstrip(_)
rstrip(s) ==
  IF s # << >> /\ s[Len(s)] \in Whitespace
  THEN rstrip(SubSeq(s, 1, Len(s) - 1)) ELSE s

strip(s) == rstrip(lstrip(s))

\* ----------------------------------------------------------------- float
\* float(text) for text = digits, or digits "." digits: read the digits
\* left to right, count the decimals, drop trailing decimal zeros.
RECURSIVE ReadDigits(_, _, _, _)
ReadDigits(text, i, m, e) ==
  IF i > Len(text) THEN [m |-> m, e |-> e]
  ELSE IF text[i] = "." THEN ReadDigits(text, i + 1, m, 0)
  ELSE ReadDigits(text, i + 1, 10 * m + DigitVal(text[i]),
                  IF e >= 0 THEN e + 1 ELSE e)

RECURSIVE Normalise(_)
Normalise(f) ==
  IF f.e > 0 /\ f.m % 10 = 0
  THEN Normalise([m |-> f.m \div 10, e |-> f.e - 1]) ELSE f

\* mutant of float: the decimals are dropped
float_whole(text) ==
  LET r == ReadDigits(text, 1, 0, -1)
  IN  [m |-> r.m \div Pow10(IF r.e < 0 THEN 0 ELSE r.e), e |-> 0]

float(text) ==
  LET r == ReadDigits(text, 1, 0, -1)
  IN  Normalise([m |-> r.m, e |-> IF r.e < 0 THEN 0 ELSE r.e])

\* ------------------------------------------------------------- re.match
\* \d+ at position i, greedy: the index after the longest run of digits
RECURSIVE DigitRunEnd(_, _)
DigitRunEnd(s, i) ==
  IF i <= Len(s) /\ s[i] \in Digits THEN DigitRunEnd(s, i + 1) ELSE i

\* the rest of the pattern, (\.\d+)?% , tried at position j: the optional
\* group is tried present (greedy) before absent.  0 when it fails.
MatchTail(s, j) ==
  LET k == IF j <= Len(s) /\ s[j] = "." THEN DigitRunEnd(s, j + 1) ELSE j
      withGroup == k > j + 1 /\ k <= Len(s) /\ s[k] = "%"
  IN  IF withGroup THEN k
      ELSE IF j <= Len(s) /\ s[j] = "%" THEN j
      ELSE 0

\* re.match(r'(\d+(\.\d+)?)%', s): anchored at the first character; \d+
\* backtracks from its longest run down to one digit.  Returns the index of
\* the matched '%', so that group(1) = s[1 .. that - 1]; 0 for no match.
RECURSIVE MatchFrom(_, _)
MatchFrom(s, j) ==
  IF j <= 1 THEN 0
  ELSE IF MatchTail(s, j) # 0 THEN MatchTail(s, j)
  ELSE MatchFrom(s, j - 1)

re_match(s) == MatchFrom(s, DigitRunEnd(s, 1))

\* ------------------------------------------------------- extract_number
None == [exc |-> "none", some |-> FALSE, m |-> 0, e |-> 0]

Raised(x) == [exc |-> x, some |-> FALSE, m |-> 0, e |-> 0]

Float(f) == [exc |-> "none", some |-> TRUE, m |-> f.m, e |-> f.e]

\* mutant of extract_number: no match gives 0.0
extract_number_zero(val) ==
  IF val.t # "str" THEN Raised("AttributeError")
  ELSE LET s == strip(val.v)
           p == re_match(s)
       IN  IF p # 0 THEN Float(float(SubSeq(s, 1, p - 1)))
           ELSE Float([m |-> 0, e |-> 0])

extract_number(val) ==
  IF val.t # "str" THEN Raised("AttributeError")
  ELSE LET s == strip(val.v)
           p == re_match(s)
       IN  IF p # 0 THEN Float(float(SubSeq(s, 1, p - 1))) ELSE None

\* ------------------------------------------------------------ json.loads
Tok(k, s) == [k |-> k, s |-> s]

P(k) == Tok(k, << >>)

Dict(items) == [t |-> "dict", v |-> items]

List(elems) == [t |-> "list", v |-> elems]

Num(s) == [t |-> "num", v |-> s]

Lit(s) == [t |-> "lit", v |-> s]

PyNone == Lit(<<"n", "u", "l", "l">>)

Item(key, val) == [key |-> key, val |-> val]

HasKey(items, key) == \E i \in 1..Len(items) : items[i].key = key

\* dict[key] = val: a repeated key keeps its place and takes the new value
SetItem(items, key, val) ==
  IF HasKey(items, key)
  THEN [i \in 1..Len(items) |->
          IF items[i].key = key THEN Item(key, val) ELSE items[i]]
  ELSE Append(items, Item(key, val))

Fail == [ok |-> FALSE, val |-> PyNone, next |-> 0]

Ok(val, next) == [ok |-> TRUE, val |-> val, next |-> next]

RECURSIVE ParseValue(_, _)
RECURSIVE ParseMembers(_, _, _)
RECURSIVE ParseElements(_, _, _)

ParseValue(toks, i) ==
  IF i > Len(toks) THEN Fail
  ELSE LET tk == toks[i]
       IN  CASE tk.k = "str" -> Ok(Str(tk.s), i + 1)
             [] tk.k = "num" -> Ok(Num(tk.s), i + 1)
             [] tk.k = "lit" -> Ok(Lit(tk.s), i + 1)
             [] tk.k = "{" ->
                  IF i + 1 <= Len(toks) /\ toks[i + 1].k = "}"
                  THEN Ok(Dict(<< >>), i + 2)
                  ELSE ParseMembers(toks, i + 1, << >>)
             [] tk.k = "[" ->
                  IF i + 1 <= Len(toks) /\ toks[i + 1].k = "]"
                  THEN Ok(List(<< >>), i + 2)
                  ELSE ParseElements(toks, i + 1, << >>)
             [] OTHER -> Fail

ParseMembers(toks, i, items) ==
  IF i + 1 > Len(toks) \/ toks[i].k # "str" \/ toks[i + 1].k # ":"
  THEN Fail
  ELSE LET r == ParseValue(toks, i + 2)
       IN  IF ~r.ok \/ r.next > Len(toks) THEN Fail
           ELSE IF toks[r.next].k = "}"
           THEN Ok(Dict(SetItem(items, toks[i].s, r.val)), r.next + 1)
           ELSE IF toks[r.next].k = ","
           THEN ParseMembers(toks, r.next + 1,
                             SetItem(items, toks[i].s, r.val))
           ELSE Fail

ParseElements(toks, i, elems) ==
  LET r == ParseValue(toks, i)
  IN  IF ~r.ok \/ r.next > Len(toks) THEN Fail
      ELSE IF toks[r.next].k = "]"
      THEN Ok(List(Append(elems, r.val)), r.next + 1)
      ELSE IF toks[r.next].k = ","
      THEN ParseElements(toks, r.next + 1, Append(elems, r.val))
      ELSE Fail

NotWs(tk) == tk.k # "ws"

\* mutant of json_loads: what follows the first value is not looked at
json_loads_lenient(text) ==
  LET toks == SelectSeq(text, NotWs)
      r == ParseValue(toks, 1)
  IN  IF r.ok THEN r ELSE Fail

\* json.loads(text): whitespace between tokens is skipped, one value is
\* read and nothing may follow it; ok = FALSE stands for JSONDecodeError
json_loads(text) ==
  LET toks == SelectSeq(text, NotWs)
      r == ParseValue(toks, 1)
  IN  IF r.ok /\ r.next = Len(toks) + 1 THEN r ELSE Fail

\* ----------------------------------------------------------------- keys
K_name == <<"n", "a", "m", "e">>

K_statistics == <<"s", "t", "a", "t", "i", "s", "t", "i", "c", "s">>

K_total_cases == <<"t", "o", "t", "a", "l", "_", "c", "a", "s", "e", "s">>

K_recovery_rate == <<"r", "e", "c", "o", "v", "e", "r", "y", "_", "r", "a", "t", "e">>

K_mortality_rate == <<"m", "o", "r", "t", "a", "l", "i", "t", "y", "_", "r", "a", "t", "e">>

K_recovery_options == <<"r", "e", "c", "o", "v", "e", "r", "y", "_", "o", "p", "t", "i", "o", "n", "s">>

K_medication == <<"m", "e", "d", "i", "c", "a", "t", "i", "o", "n">>

K_side_effects == <<"s", "i", "d", "e", "_", "e", "f", "f", "e", "c", "t", "s">>

K_dosage == <<"d", "o", "s", "a", "g", "e">>

\* ------------------------------------------------------- Python runtime
Val(v) == [exc |-> "none", val |-> v]

Exc(x) == [exc |-> x, val |-> PyNone]

Lookup(items, key) ==
  items[CHOOSE i \in 1..Len(items) : items[i].key = key].val

\* obj[key] with a str key: a dict without the key raises KeyError, any
\* value that is not a dict raises TypeError
Subscript(obj, key) ==
  IF obj.t # "dict" THEN Exc("TypeError")
  ELSE IF HasKey(obj.v, key) THEN Val(Lookup(obj.v, key))
  ELSE Exc("KeyError")

\* iter(obj): lists, strs and dicts iterate, numbers and literals do not
Iterable(obj) == obj.t \in {"list", "str", "dict"}

\* ---------------------------------------------------------- UI widgets
\* a widget call: the routine that makes it, the widget, its data, and the
\* tab that is open when it is made ("" for the page itself)
Ev(by, w) == [tab |-> "", by |-> by, w |-> w, data |-> << >>]

\* with tab_objects[idx]: the widgets made inside go to that tab
InTab(ev, tab) == [i \in 1..Len(ev) |-> [ev[i] EXCEPT !.tab = tab]]

Out(ev, exc) == [ev |-> ev, exc |-> exc]

display_medication(medication) ==
  LET tab == "display_medication"
      nm == Subscript(medication, K_name)
      se == Subscript(medication, K_side_effects)
      ds == Subscript(medication, K_dosage)
      ev1 == <<Ev(tab, "subheader"), Ev(tab, "write:side_effects")>>
      ev2 == ev1 \o <<Ev(tab, "markdown"), Ev(tab, "write:dosage")>>
      ev3 == ev2 \o <<Ev(tab, "write"), Ev(tab, "write:divider")>>
  IN  IF nm.exc # "none" THEN Out(<< >>, nm.exc)
      ELSE IF se.exc # "none" THEN Out(ev1, se.exc)
      ELSE IF ~Iterable(se.val) THEN Out(ev1, "TypeError")
      ELSE IF ds.exc # "none" THEN Out(ev2, ds.exc)
      ELSE Out(ev3, "none")

RECURSIVE OptionWidgets(_, _)
OptionWidgets(items, i) ==
  IF i > Len(items) THEN << >>
  ELSE <<Ev("display_recovery_options", "subheader"),
         Ev("display_recovery_options", "markdown")>>
         \o OptionWidgets(items, i + 1)

display_recovery_options(recovery_options) ==
  IF recovery_options.t # "dict" THEN Out(<< >>, "AttributeError")
  ELSE Out(OptionWidgets(recovery_options.v, 1), "none")

display_statistics(recovery, mortality, name) ==
  Out(<<Ev("display_statistics", "write"),
        [Ev("display_statistics", "bar_chart")
           EXCEPT !.data = <<recovery, mortality>>]>>, "none")

\* ------------------------------------------------ display_disease_info
\* mutant of tab_list: one rate is enough for the Statistics tab
tab_list_either(recovery_rate, mortality_rate) ==
  (IF recovery_rate.some \/ mortality_rate.some
   THEN <<"Statistics">> ELSE << >>) \o <<"Recovery", "Medication">>

tab_list(recovery_rate, mortality_rate) ==
  (IF recovery_rate.some /\ mortality_rate.some
   THEN <<"Statistics">> ELSE << >>) \o <<"Recovery", "Medication">>

\* mutant of tab_content: the Recovery and Medication branches are swapped
tab_content_swapped(info, tab_name, recovery_rate, mortality_rate) ==
  CASE tab_name = "Statistics" ->
         LET nm == Subscript(info, K_name)
         IN  IF nm.exc # "none" THEN Out(<< >>, nm.exc)
             ELSE display_statistics(recovery_rate, mortality_rate, nm.val)
    [] tab_name = "Medication" ->
         LET ro == Subscript(info, K_recovery_options)
         IN  IF ro.exc # "none" THEN Out(<< >>, ro.exc)
             ELSE display_recovery_options(ro.val)
    [] tab_name = "Recovery" ->
         LET md == Subscript(info, K_medication)
         IN  IF md.exc # "none" THEN Out(<< >>, md.exc)
             ELSE display_medication(md.val)
    [] OTHER -> Out(<< >>, "none")

\* the body of one pass of the loop over the tabs
tab_content(info, tab_name, recovery_rate, mortality_rate) ==
  CASE tab_name = "Statistics" ->
         LET nm == Subscript(info, K_name)
         IN  IF nm.exc # "none" THEN Out(<< >>, nm.exc)
             ELSE display_statistics(recovery_rate, mortality_rate, nm.val)
    [] tab_name = "Recovery" ->
         LET ro == Subscript(info, K_recovery_options)
         IN  IF ro.exc # "none" THEN Out(<< >>, ro.exc)
             ELSE display_recovery_options(ro.val)
    [] tab_name = "Medication" ->
         LET md == Subscript(info, K_medication)
         IN  IF md.exc # "none" THEN Out(<< >>, md.exc)
             ELSE display_medication(md.val)
    [] OTHER -> Out(<< >>, "none")

\* the loop over the tabs: stops at the first exception
RECURSIVE render_tabs(_, _, _, _, _)
render_tabs(info, tab_names, idx, recovery_rate, mortality_rate) ==
  IF idx > Len(tab_names) THEN Out(<< >>, "none")
  ELSE LET one == tab_content(info, tab_names[idx],
                              recovery_rate, mortality_rate)
           rest == render_tabs(info, tab_names, idx + 1,
                               recovery_rate, mortality_rate)
           ev == InTab(one.ev, tab_names[idx])
       IN  IF one.exc # "none" THEN Out(ev, one.exc)
           ELSE Out(ev \o rest.ev, rest.exc)

\* info['statistics'][key], then extract_number of it
rate_of(info, key) ==
  LET st == Subscript(info, K_statistics)
      rt == Subscript(st.val, key)
  IN  IF st.exc # "none" THEN Raised(st.exc)
      ELSE IF rt.exc # "none" THEN Raised(rt.exc)
      ELSE extract_number(rt.val)

Shown(ev, tb, exc) == [ui |-> ev, tabs |-> tb, fault |-> exc]

JsonError == Ev("display_disease_info", "error:json")

display_disease_info(disease) ==
  LET parsed == json_loads(disease)
      info == parsed.val
      recovery_rate == rate_of(info, K_recovery_rate)
      mortality_rate == rate_of(info, K_mortality_rate)
      tab_names == tab_list(recovery_rate, mortality_rate)
      body == render_tabs(info, tab_names, 1, recovery_rate, mortality_rate)
  IN  IF ~parsed.ok THEN Shown(<<JsonError>>, << >>, "none")
      ELSE IF recovery_rate.exc # "none"
      THEN Shown(<< >>, << >>, recovery_rate.exc)
      ELSE IF mortality_rate.exc # "none"
      THEN Shown(<< >>, << >>, mortality_rate.exc)
      ELSE Shown(body.ev, tab_names, body.exc)

\* --------------------------------------- specification of extract_number
NotRun == Raised("pending")

Idle ==
  /\ disease_name = "" /\ disease_info = << >> /\ ui = << >>
  /\ tabs = << >> /\ fault = "none" /\ cache = << >> /\ remote_log = << >>
  /\ fetched = "none"

InitExtract ==
  /\ value \in {Str(s) : s \in Strings}
  /\ result = NotRun
  /\ pc = "ready"
  /\ Idle

ExtractNumber ==
  /\ pc = "ready"
  /\ result' = extract_number(value)
  /\ pc' = "done"
  /\ UNCHANGED <<value, disease_name, disease_info, ui, tabs, fault,
                 cache, remote_log, fetched>>

NextExtract == ExtractNumber

SpecExtract == InitExtract /\ [][NextExtract]_vars

\* ------------------------------------------------- the remote's answers
\* the text of a value, as the service writes it (one token per lexeme)
RECURSIVE Dumps(_)
RECURSIVE DumpItems(_, _)
RECURSIVE DumpElems(_, _)

Dumps(val) ==
  CASE val.t = "str" -> <<Tok("str", val.v)>>
    [] val.t = "num" -> <<Tok("num", val.v)>>
    [] val.t = "lit" -> <<Tok("lit", val.v)>>
    [] val.t = "dict" -> <<P("{")>> \o DumpItems(val.v, 1) \o <<P("}")>>
    [] val.t = "list" -> <<P("[")>> \o DumpElems(val.v, 1) \o <<P("]")>>

DumpItems(items, i) ==
  IF i > Len(items) THEN << >>
  ELSE <<Tok("str", items[i].key), P(":")>> \o Dumps(items[i].val)
         \o (IF i < Len(items) THEN <<P(",")>> ELSE << >>)
         \o DumpItems(items, i + 1)

DumpElems(elems, i) ==
  IF i > Len(elems) THEN << >>
  ELSE Dumps(elems[i])
         \o (IF i < Len(elems) THEN <<P(",")>> ELSE << >>)
         \o DumpElems(elems, i + 1)

NotKey(items, key) == {i \in 1..Len(items) : items[i].key # key}

RECURSIVE Pick(_, _, _)
Pick(items, keep, i) ==
  IF i > Len(items) THEN << >>
  ELSE (IF i \in keep THEN <<items[i]>> ELSE << >>)
         \o Pick(items, keep, i + 1)

\* the dict d without key, and with key set to val
Without(d, key) == Dict(Pick(d.v, NotKey(d.v, key), 1))

With(d, key, val) == Dict(SetItem(d.v, key, val))

S_Flu == <<"F", "l", "u">>

S_95 == <<"9", "5", "%">>

S_01 == <<"0", ".", "1", "%">>

S_NA == <<"N", "/", "A">>

S_Pad == <<" ", "9", "5", "%", " ">>

S_Bare == <<"9", "5">>

S_Rest == <<"R", "e", "s", "t">>

S_Sleep == <<"S", "l", "e", "e", "p">>

S_Stay == <<"S", "t", "a", "y", " ", "i", "n">>

S_Ibu == <<"I", "b", "u", "p", "r", "o", "f", "e", "n">>

S_Nausea == <<"N", "a", "u", "s", "e", "a">>

S_Dizzy == <<"D", "i", "z", "z", "y">>

S_Dose == <<"2", "0", "0", "m", "g">>

S_Extra == <<"s", "o", "u", "r", "c", "e">>

FluStats ==
  Dict(<<Item(K_total_cases, Num(<<"1", "0", "0", "0">>)),
         Item(K_recovery_rate, Str(S_95)),
         Item(K_mortality_rate, Str(S_01))>>)

FluOptions == Dict(<<Item(S_Rest, Str(S_Stay))>>)

FluMedication ==
  Dict(<<Item(K_name, Str(S_Ibu)),
         Item(K_side_effects, List(<<Str(S_Nausea), Str(S_Dizzy)>>)),
         Item(K_dosage, Str(S_Dose))>>)

Flu ==
  Dict(<<Item(K_name, Str(S_Flu)),
         Item(K_statistics, FluStats),
         Item(K_recovery_options, FluOptions),
         Item(K_medication, FluMedication)>>)

Stats(recovery, mortality) ==
  With(Flu, K_statistics,
       With(With(FluStats, K_recovery_rate, recovery),
            K_mortality_rate, mortality))

Med(key, val) == With(Flu, K_medication, With(FluMedication, key, val))

\* answers that follow the template, with rates that do or do not parse
GoodDocs ==
  <<Flu,
    Stats(Str(S_NA), Str(S_01)),
    Stats(Str(S_95), Str(S_NA)),
    Stats(Str(S_NA), Str(S_Bare)),
    Stats(Str(S_Pad), Str(S_01)),
    With(Flu, S_Extra, Str(S_Flu)),
    With(Flu, K_recovery_options,
         With(FluOptions, S_Sleep, Str(S_Stay))),
    With(Flu, K_recovery_options, Dict(<< >>)),
    Med(K_side_effects, List(<< >>))>>

\* answers with a key missing
MissingDocs ==
  <<Without(Flu, K_name),
    Without(Flu, K_statistics),
    Without(Flu, K_recovery_options),
    Without(Flu, K_medication),
    With(Flu, K_statistics, Without(FluStats, K_recovery_rate)),
    With(Flu, K_statistics, Without(FluStats, K_mortality_rate)),
    With(Flu, K_medication, Without(FluMedication, K_name)),
    With(Flu, K_medication, Without(FluMedication, K_side_effects)),
    With(Flu, K_medication, Without(FluMedication, K_dosage)),
    Without(Stats(Str(S_NA), Str(S_01)), K_medication),
    Without(Stats(Str(S_NA), Str(S_01)), K_name),
    Dict(<< >>)>>

\* answers with every key present and a value of another type
ShapeDocs ==
  <<Stats(Num(S_Bare), Str(S_01)),
    Stats(Str(S_95), Num(S_Bare)),
    Stats(PyNone, Str(S_01)),
    With(Flu, K_statistics, Str(S_95)),
    With(Flu, K_statistics, List(<<Str(S_95), Str(S_01)>>)),
    With(Flu, K_recovery_options, List(<<Str(S_Rest)>>)),
    With(Flu, K_recovery_options, Str(S_Rest)),
    With(Flu, K_medication, Str(S_Ibu)),
    With(Flu, K_medication, List(<<FluMedication>>)),
    Med(K_side_effects, Num(S_Bare)),
    Med(K_side_effects, PyNone),
    Med(K_side_effects, Str(S_Nausea)),
    Med(K_name, Num(S_Bare)),
    With(Flu, K_name, PyNone),
    With(Flu, K_statistics,
         With(FluStats, K_total_cases, Str(S_Bare)))>>

\* answers that are not a JSON object at all
TopDocs ==
  <<List(<<Flu>>), List(<< >>), Str(S_Flu), Num(S_Bare), PyNone>>

DocList == GoodDocs \o MissingDocs \o ShapeDocs \o TopDocs

Texts == {Dumps(DocList[i]) : i \in 1..Len(DocList)}

Prefixes(text) == {SubSeq(text, 1, n) : n \in 0..Len(text)}

DropOne(text) ==
  {SubSeq(text, 1, i - 1) \o SubSeq(text, i + 1, Len(text)) :
     i \in 1..Len(text)}

Ws == Tok("ws", <<" ">>)

Fence == Tok("bad", <<"~", "~", "~">>)

\* the text with whitespace before, inside and after it, inside
\* a markdown fence, followed by more text, or with one lexeme lost
Decorated(text) ==
  {<<Ws>> \o text, text \o <<Ws>>, <<Ws, Head(text), Ws>> \o Tail(text),
   <<Fence>> \o text \o <<Fence>>, text \o <<P("}")>>, text \o text,
   text \o <<Fence>>}
    \cup DropOne(text)

Responses ==
  UNION {Prefixes(text) : text \in Texts}
    \cup UNION {Decorated(Dumps(DocList[i])) : i \in {1, 2, 10}}
    \cup {<<Ws>>, <<Fence>>, <<Ws, Ws>>}

\* ----------------------------------- specification of display_disease_info
InitDisplay ==
  /\ disease_info \in Responses
  /\ pc = "ready"
  /\ value = Str(<< >>) /\ result = NotRun
  /\ disease_name = "" /\ ui = << >> /\ tabs = << >> /\ fault = "none"
  /\ cache = << >> /\ remote_log = << >> /\ fetched = "none"

DisplayDiseaseInfo ==
  /\ pc = "ready"
  /\ \E shown \in {display_disease_info(disease_info)} :
         /\ ui' = shown.ui
         /\ tabs' = shown.tabs
         /\ fault' = shown.fault
  /\ pc' = "done"
  /\ UNCHANGED <<value, result, disease_name, disease_info,
                 cache, remote_log, fetched>>

NextDisplay == DisplayDiseaseInfo

SpecDisplay == InitDisplay /\ [][NextDisplay]_vars

\* ------------------------------------------------------- get_disease_info
MaxCalls == 3

Names == {"", "Flu", "flu"}

\* what the service may answer: nothing, whitespace, a report, a report
\* with an unreadable rate, one without a key, one with a number for a
\* rate, a cut-off report, a report inside a markdown fence
Answers ==
  {<< >>, <<Ws>>, Dumps(DocList[1]), Dumps(DocList[2]),
   Dumps(MissingDocs[4]), Dumps(ShapeDocs[1]),
   SubSeq(Dumps(DocList[1]), 1, 12),
   <<Fence>> \o Dumps(DocList[1]) \o <<Fence>>}

Call(name, content) == [name |-> name, content |-> content]

\* mutant of get_disease_info: without the cache decorator
get_disease_info_uncached(c, name, content) ==
  [info |-> content, cache |-> c @@ (name :> content), how |-> "miss"]

\* @st.cache_data: the body runs (one remote call, answering content) only
\* when no value is stored for this exact name; the value is then stored
get_disease_info(c, name, content) ==
  IF name \in DOMAIN c
  THEN [info |-> c[name], cache |-> c, how |-> "hit"]
  ELSE [info |-> content, cache |-> c @@ (name :> content), how |-> "miss"]

\* ------------------------------------------------------------------ main
show_openai_response(clicked) ==
  <<Ev("show_openai_response", "button")>>
    \o (IF clicked THEN <<Ev("display_json", "json")>> ELSE << >>)

EmptyError == Ev("main", "error:empty")

\* mutant of main: 'if disease_info is not None' for 'if disease_info'
main_not_none(c, name, clicked, content) ==
  LET got == IF name # ""
             THEN get_disease_info(c, name, content)
             ELSE [info |-> << >>, cache |-> c, how |-> "none"]
      head == <<Ev("main", "title"), Ev("main", "text_input")>>
                \o (IF name # "" THEN <<Ev("main", "spinner")>> ELSE << >>)
      shown == display_disease_info(got.info)
  IN  IF name # ""
      THEN [info |-> got.info, cache |-> got.cache, how |-> got.how,
            ui |-> head \o show_openai_response(clicked)
                     \o <<Ev("main", "divider")>> \o shown.ui,
            tabs |-> shown.tabs, fault |-> shown.fault]
      ELSE [info |-> got.info, cache |-> got.cache, how |-> got.how,
            ui |-> head, tabs |-> << >>, fault |-> "none"]

\* one run of the script.  None and "" are both the empty text: the script
\* only tests them for truth.
main(c, name, clicked, content) ==
  LET got == IF name # ""
             THEN get_disease_info(c, name, content)
             ELSE [info |-> << >>, cache |-> c, how |-> "none"]
      head == <<Ev("main", "title"), Ev("main", "text_input")>>
                \o (IF name # "" THEN <<Ev("main", "spinner")>> ELSE << >>)
      shown == display_disease_info(got.info)
  IN  IF got.info # << >>
      THEN [info |-> got.info, cache |-> got.cache, how |-> got.how,
            ui |-> head \o show_openai_response(clicked)
                     \o <<Ev("main", "divider")>> \o shown.ui,
            tabs |-> shown.tabs, fault |-> shown.fault]
      ELSE [info |-> got.info, cache |-> got.cache, how |-> got.how,
            ui |-> head \o (IF name # "" THEN <<EmptyError>> ELSE << >>),
            tabs |-> << >>, fault |-> "none"]

Init ==
  /\ pc = "ready"
  /\ value = Str(<< >>) /\ result = NotRun
  /\ Idle

Run(name, clicked, content) ==
  \E run \in {main(cache, name, clicked, content)} :
      /\ disease_name' = name
      /\ disease_info' = run.info
      /\ ui' = run.ui
      /\ tabs' = run.tabs
      /\ fault' = run.fault
      /\ cache' = run.cache
      /\ fetched' = run.how
      /\ remote_log' = IF run.how = "miss"
                       THEN Append(remote_log, Call(name, content))
                       ELSE remote_log
      /\ pc' = "done"
      /\ UNCHANGED <<value, result>>

ButtonOffered ==
  \E i \in 1..Len(ui) : ui[i].by = "show_openai_response"

\* the user enters a disease name (or clears the field): the script runs
Submit ==
  /\ Len(remote_log) < MaxCalls
  /\ \E name \in Names, content \in Answers : Run(name, FALSE, content)

\* the user presses 'Show OpenAI response': the script runs again with the
\* same text in the field
ClickButton ==
  /\ pc = "done"
  /\ ButtonOffered
  /\ Len(remote_log) < MaxCalls
  /\ \E content \in Answers : Run(disease_name, TRUE, content)

Next == Submit \/ ClickButton

Spec == Init /\ [][Next]_vars

\* ------------------------------------------ properties of extract_number
Min(S) == CHOOSE x \in S : \A y \in S : x <= y

Max(S) == CHOOSE x \in S : \A y \in S : x >= y

\* the whitespace-trimmed form: from the first to the last character that
\* is not whitespace
Trimmed(s) ==
  LET keep == {i \in 1..Len(s) : s[i] \notin Whitespace}
  IN  IF keep = {} THEN << >> ELSE SubSeq(s, Min(keep), Max(keep))

AllDigits(s, a, b) ==
  a <= b /\ b <= Len(s) /\ \A i \in a..b : s[i] \in Digits

\* the ways s begins with n digits, then (k > 0) a point and k digits, then
\* a percent sign
PercentSplits(s) ==
  {nk \in (1..Len(s)) \X (0..Len(s)) :
     LET n == nk[1]
         k == nk[2]
     IN  /\ AllDigits(s, 1, n)
         /\ IF k = 0
            THEN n + 1 <= Len(s) /\ s[n + 1] = "%"
            ELSE /\ n + 2 + k <= Len(s)
                 /\ s[n + 1] = "."
                 /\ AllDigits(s, n + 2, n + 1 + k)
                 /\ s[n + 2 + k] = "%"}

\* the number written by the digits s[a..b]: sum of digit * 10^position
RECURSIVE DigitSum(_, _, _)
DigitSum(s, a, b) ==
  IF a > b THEN 0
  ELSE DigitVal(s[a]) * Pow10(b - a) + DigitSum(s, a + 1, b)

\* some later position of s, but not the first, starts a percentage
MatchesOnlyLater(s) ==
  /\ PercentSplits(s) = {}
  /\ \E i \in 2..Len(s) : PercentSplits(SubSeq(s, i, Len(s))) # {}

\* C3: when the trimmed input begins with digits, optionally a point and
\* digits, then a percent sign, extract_number returns exactly the number
\* those leading digits write, whatever follows the percent sign; a
\* percentage that starts after the first character does not count.
C3_ExtractValue ==
  pc = "done" =>
    LET s == Trimmed(value.v)
    IN  /\ \A nk \in PercentSplits(s) :
             /\ result.exc = "none"
             /\ result.some
             /\ result.m * Pow10(nk[2]) =
                  (DigitSum(s, 1, nk[1]) * Pow10(nk[2])
                     + DigitSum(s, nk[1] + 2, nk[1] + 1 + nk[2]))
                  * Pow10(result.e)
        /\ MatchesOnlyLater(s) => ~result.some

C3_Witness ==
  /\ pc = "done"
  /\ result.some /\ result.e = 1 /\ result.m = 77
  /\ Head(value.v) \in Whitespace

\* C4: on every string that does not begin (after trimming) with a
\* percentage, extract_number returns None, which is not the number 0, and
\* on no string does it raise.
C4_NoValue ==
  pc = "done" =>
    /\ result.exc = "none"
    /\ PercentSplits(Trimmed(value.v)) = {} =>
         /\ result = None
         /\ result # Float(float(<<"0">>))

C4_Witness ==
  /\ pc = "done"
  /\ result = None
  /\ Len(value.v) >= 2 /\ value.v[1] = "%" /\ value.v[2] \in Digits

\* ------------------------------------ properties of display_disease_info
Bare(text) == SelectSeq(text, NotWs)

\* the response is the text of one JSON document
IsJson(text) == Bare(text) \in Texts

DocOf(text) ==
  DocList[CHOOSE i \in 1..Len(DocList) : Dumps(DocList[i]) = Bare(text)]

Has(d, key) == d.t = "dict" /\ HasKey(d.v, key)

Field(d, key) == Lookup(d.v, key)

LacksAny(d, keys) == d.t = "dict" /\ \E key \in keys : ~HasKey(d.v, key)

\* a JSON object without one of the keys the report is read from
LacksRequiredKey(d) ==
  \/ LacksAny(d, {K_name, K_statistics, K_recovery_options, K_medication})
  \/ /\ Has(d, K_statistics)
     /\ LacksAny(Field(d, K_statistics), {K_recovery_rate, K_mortality_rate})
  \/ /\ Has(d, K_medication)
     /\ LacksAny(Field(d, K_medication), {K_name, K_side_effects, K_dosage})

AllStr(elems) == \A i \in 1..Len(elems) : elems[i].t = "str"

AllStrVals(items) == \A i \in 1..Len(items) : items[i].val.t = "str"

\* the shape of a report: every key present with a value of its type
Conformant(d) ==
  /\ d.t = "dict"
  /\ ~LacksRequiredKey(d)
  /\ Field(d, K_name).t = "str"
  /\ LET st == Field(d, K_statistics)
         ro == Field(d, K_recovery_options)
         md == Field(d, K_medication)
     IN  /\ st.t = "dict"
         /\ Has(st, K_total_cases) /\ Field(st, K_total_cases).t = "num"
         /\ Field(st, K_recovery_rate).t = "str"
         /\ Field(st, K_mortality_rate).t = "str"
         /\ ro.t = "dict" /\ AllStrVals(ro.v)
         /\ md.t = "dict"
         /\ Field(md, K_name).t = "str"
         /\ Field(md, K_side_effects).t = "list"
         /\ AllStr(Field(md, K_side_effects).v)
         /\ Field(md, K_dosage).t = "str"

WrongShape(d) == ~LacksRequiredKey(d) /\ ~Conformant(d)

ErrorsShown == SelectSeq(ui, LAMBDA e : e.w \in {"error:json", "error:empty"})

\* the run ended in an error message and nothing else
ReportedError ==
  /\ fault = "none"
  /\ Len(ErrorsShown) = 1
  /\ tabs = << >>
  /\ \A i \in 1..Len(ui) : ui[i].tab = ""

\* C1: a valid JSON response that lacks a required key ends in a reported
\* error: no uncaught exception, and no report drawn in part.
C1_MissingKeyReported ==
  (pc = "done" /\ IsJson(disease_info)
     /\ LacksRequiredKey(DocOf(disease_info))) => ReportedError

\* C2: a response that is not valid JSON gets the decoding error message
\* and no part of a report: no tabs, no tab content, no exception.
C2_MalformedReported ==
  (pc = "done" /\ ~IsJson(disease_info)) =>
    /\ ui = <<JsonError>>
    /\ tabs = << >>
    /\ fault = "none"

C2_Witness ==
  /\ pc = "done"
  /\ ~IsJson(disease_info)
  /\ Len(disease_info) > 20
  /\ ui = <<JsonError>>

Parses(rate) == PercentSplits(Trimmed(rate.v)) # {}

BothRatesParse(d) ==
  /\ Parses(Field(Field(d, K_statistics), K_recovery_rate))
  /\ Parses(Field(Field(d, K_statistics), K_mortality_rate))

InSeq(x, sq) == \E i \in 1..Len(sq) : sq[i] = x

WidgetsIn(tab) == SelectSeq(ui, LAMBDA e : e.tab = tab)

\* C5: a report of the right shape has the Statistics tab exactly when
\* both rates parse; without it the Recovery and Medication tabs are still
\* there and drawn; display_statistics never gets an absent rate.
C5_StatisticsTab ==
  pc = "done" =>
    /\ (IsJson(disease_info) /\ Conformant(DocOf(disease_info))) =>
         /\ fault = "none"
         /\ InSeq("Statistics", tabs) <=> BothRatesParse(DocOf(disease_info))
         /\ InSeq("Recovery", tabs) /\ InSeq("Medication", tabs)
         /\ Len(WidgetsIn("Medication")) > 0
         /\ Len(WidgetsIn("Statistics")) > 0 <=> InSeq("Statistics", tabs)
    /\ \A i \in 1..Len(ui) :
         ui[i].by = "display_statistics" /\ ui[i].w = "bar_chart" =>
           /\ Len(ui[i].data) = 2
           /\ ui[i].data[1].some /\ ui[i].data[2].some

C5_Witness ==
  /\ pc = "done"
  /\ IsJson(disease_info) /\ Conformant(DocOf(disease_info))
  /\ ~BothRatesParse(DocOf(disease_info))
  /\ tabs = <<"Recovery", "Medication">>
  /\ Len(WidgetsIn("Recovery")) > 0

\* C7: a valid JSON response with a value of the wrong type ends in a
\* reported error, not in an uncaught exception.
C7_WrongShapeReported ==
  (pc = "done" /\ IsJson(disease_info)
     /\ WrongShape(DocOf(disease_info))) => ReportedError

RoutineOf(tab) ==
  CASE tab = "Statistics" -> "display_statistics"
    [] tab = "Recovery" -> "display_recovery_options"
    [] tab = "Medication" -> "display_medication"
    [] OTHER -> "display_disease_info"

Position(tab) == CHOOSE i \in 1..Len(tabs) : tabs[i] = tab

\* C9: the tabs created are Recovery, Medication, or Statistics, Recovery,
\* Medication, in that order; what is drawn in a tab is drawn by the routine
\* of the tab's name, tab after tab in the order of the list, and a run
\* that ends normally has drawn every routine to its end.
C9_TabList ==
  (pc = "done" /\ tabs # << >>) =>
    /\ tabs \in {<<"Recovery", "Medication">>,
                 <<"Statistics", "Recovery", "Medication">>}
    /\ \A i \in 1..Len(ui) :
         ui[i].tab # "" =>
           /\ InSeq(ui[i].tab, tabs)
           /\ ui[i].by = RoutineOf(ui[i].tab)
           /\ \A j \in 1..i :
                ui[j].tab # "" => Position(ui[j].tab) <= Position(ui[i].tab)
    /\ fault = "none" =>
         /\ Len(WidgetsIn("Medication")) = 6
         /\ Len(WidgetsIn("Statistics")) =
              (IF InSeq("Statistics", tabs) THEN 2 ELSE 0)
         /\ Len(WidgetsIn("Recovery")) % 2 = 0

C9_Witness ==
  /\ pc = "done"
  /\ tabs = <<"Statistics", "Recovery", "Medication">>
  /\ fault = "none"
  /\ Len(WidgetsIn("Recovery")) = 4

\* --------------------------------------------- properties of the script
CallsFor(name) == SelectSeq(remote_log, LAMBDA call : call.name = name)

\* C6: the service is called at most once for each exact disease name;
\* every query for a name returns what the first call for that name
\* answered, never what was answered for another name.
C6_CachedOnce ==
  /\ \A name \in Names : Len(CallsFor(name)) <= 1
  /\ (pc = "done" /\ disease_name # "") =>
       /\ Len(CallsFor(disease_name)) = 1
       /\ disease_info = CallsFor(disease_name)[1].content
       /\ fetched \in {"hit", "miss"}

C6_Witness ==
  /\ pc = "done"
  /\ fetched = "hit"
  /\ Len(remote_log) = 2
  /\ remote_log[1].content # remote_log[2].content
  /\ disease_name = remote_log[1].name
  /\ disease_info = remote_log[1].content

\* the response did not parse, or parsed to something that is not a report
FailsToParseOrValidate(text) ==
  text # << >> /\ (IsJson(text) => ~Conformant(DocOf(text)))

\* C8: a run whose response fails to parse or to validate shows exactly
\* one error message and makes no second remote call.
C8_OneErrorPerFailure ==
  (pc = "done" /\ FailsToParseOrValidate(disease_info)) =>
    /\ Len(ErrorsShown) = 1
    /\ Len(CallsFor(disease_name)) <= 1

IndexOf(by) == CHOOSE i \in 1..Len(ui) : ui[i].by = by

DrawnAt == {i \in 1..Len(ui) : ui[i].tab # "" \/ ui[i].w = "error:json"}

\* C10: with no disease name, nothing is fetched or looked up and neither
\* a report nor an error is shown; with a name and an empty response only
\* the 'No valid disease information found' error is shown and nothing is
\* parsed; with a response, the raw-response button comes before anything
\* the parse produces, also when the parse fails.
C10_Outcomes ==
  pc = "done" =>
    /\ disease_name = "" =>
         /\ fetched = "none"
         /\ ui = <<Ev("main", "title"), Ev("main", "text_input")>>
         /\ tabs = << >> /\ fault = "none"
    /\ (disease_name # "" /\ disease_info = << >>) =>
         /\ ErrorsShown = <<EmptyError>>
         /\ ui[Len(ui)] = EmptyError
         /\ DrawnAt = {} /\ ~ButtonOffered
         /\ tabs = << >> /\ fault = "none"
    /\ disease_info # << >> =>
         /\ disease_name # ""
         /\ ButtonOffered
         /\ \A i \in DrawnAt : IndexOf("show_openai_response") < i
         /\ ~InSeq(EmptyError, ui)
         /\ fault = "none" => DrawnAt # {}

C10_Witness ==
  /\ pc = "done"
  /\ disease_info # << >>
  /\ ~IsJson(disease_info)
  /\ ButtonOffered
  /\ InSeq(JsonError, ui)
  /\ Len(remote_log) = 2
  /\ remote_log[1].content = << >>

====
